---- MODULE Spec2Model ----
(***************************************************************************)
(* Model of the open-operator agent endpoint (src/app/page.tsx) and the    *)
(* session endpoint (src/app/api/session/route.ts).                        *)
(*                                                                         *)
(* One behaviour is one inbound request.  Every await of the handlers is a *)
(* position of pc; an action is "the awaited call returns and the handler  *)
(* runs up to its next await".  A remote call is logged in calls at the    *)
(* moment it is issued.  The consumer of the event stream may cancel the   *)
(* stream at any await; an enqueue on a cancelled stream throws.           *)
(***************************************************************************)
EXTENDS Integers, Sequences, FiniteSets, TLC

VARIABLES
  req,                      \* the inbound request and the server environment
  pc,                       \* position of the handler
  status,                   \* HTTP status of the response, 0 while none
  body,                     \* JSON body of the session endpoint's response
  sessionId,                \* POST: let sessionId (page.tsx:571)
  sessionCreatedInRoute,    \* POST: let sessionCreatedInRoute (page.tsx:587)
  contextId,                \* POST: sessionData.contextId (page.tsx:606)
  activeSessionId,          \* executeAgentWithStream: activeSessionId (page.tsx:436)
  sessionCreatedInternally, \* executeAgentWithStream (page.tsx:435)
  firstStep,                \* const firstStep (page.tsx:460, 634)
  allSteps,                 \* let allSteps (page.tsx:491, 665)
  done,                     \* let done (page.tsx:492, 666)
  started,                  \* a streaming Response has been returned
  stream,                   \* events enqueued on the controller, in order
  closed,                   \* number of successful controller.close() calls
  cancelled,                \* the consumer has cancelled the stream
  calls,                    \* remote calls issued, in order
  failure,                  \* history: the first awaited call of the run that failed
  cleanup,                  \* history: outcome of the finally's release request
  region,                   \* region sent with the provider's session request
  lastOp,                   \* history: what the last runStagehand did with its handle
  leaked,                   \* history: a handle was opened on the session and never closed
  overlapped,               \* history: a handle was opened while another was open
  previousSteps,            \* sendPrompt: its previousSteps parameter (page.tsx:262)
  emitted,                  \* test client: the records the server wrote to the response
  wire,                     \* test client: bytes of the response not yet delivered
  buffer,                   \* test client: let buffer (part_000:92)
  printed                   \* test client: the lines handed to JSON.parse, in order

vars == <<req, pc, status, body, sessionId, sessionCreatedInRoute, contextId,
          activeSessionId, sessionCreatedInternally, firstStep, allSteps,
          done, started, stream, closed, cancelled, calls, failure, cleanup, region, lastOp, leaked,
          overlapped, previousSteps, emitted, wire, buffer, printed>>

----
\* Bounds

\* planner calls allowed in one run
MaxSteps == 3

\* instructions the reasoning model may attach to a step
Instrs == {"i1", "i2"}

\* starting URLs the reasoning model may choose
Urls == {"u1"}

----
\* Values

NULL == "null"

CallerSession == "s_caller"
NewSession == "s_new"
CallerContext == "c_caller"
NewContext == "c_new"

\* type Step's tool (page.tsx:172)
Tools == {"GOTO", "ACT", "EXTRACT", "OBSERVE", "CLOSE", "WAIT", "NAVBACK"}

Step(tool, instruction) == [tool |-> tool, instruction |-> instruction]

NoStep == Step("-", "-")

Event(type, result, isDone, sid, ctx, url, steps) ==
  [type |-> type, result |-> result, done |-> isDone, sessionId |-> sid,
   contextId |-> ctx, url |-> url, steps |-> steps]

Call(kind, arg) == [kind |-> kind, arg |-> arg]

----
\* Events of the stream (page.tsx:623-718, 470-542)

SessionStartEvent(sid, ctx) == Event("session_start", NoStep, FALSE, sid, ctx, "-", <<>>)

StartingUrlEvent(url) == Event("starting_url", NoStep, FALSE, "-", "-", url, <<>>)

StepCompleteEvent(step) == Event("step_complete", step, FALSE, "-", "-", "-", <<>>)

StepPlannedEventDoneFalse(step, isDone) ==
  Event("step_planned", step, FALSE, "-", "-", "-", <<>>)

StepPlannedEvent(step, isDone) == Event("step_planned", step, isDone, "-", "-", "-", <<>>)

StepExecutedEventUnnamed(step) ==
  Event("step_executed", NoStep, FALSE, "-", "-", NULL, <<>>)

StepExecutedEvent(step) ==
  Event("step_executed", step, FALSE, "-", "-",
        IF step.tool = "GOTO" THEN step.instruction ELSE NULL, <<>>)

CompleteEvent(steps) ==
  Event("complete", steps[Len(steps)], FALSE, "-", "-", "-", steps)

ErrorEvent == Event("error", NoStep, FALSE, "-", "-", "-", <<>>)

----
\* Requests

Headers == {"none", "bad", "good"}

\* the zone the agent endpoint asks its session for (page.tsx:598)
AgentTimezone == <<"America", "Los_Angeles">>

\* timezones a caller of the session endpoint may send
Timezones ==
  {<<>>, <<"">>, <<"America", "New_York">>, <<"America", "Chicago">>,
   <<"America", "Los_Angeles">>, <<"Europe", "Berlin">>, <<"Asia", "Tokyo">>,
   <<"UTC">>, <<"Etc", "GMT-9">>, <<"Etc", "GMT+5">>, <<"Indian", "Maldives">>,
   <<"Atlantic", "Azores">>, <<"Mars", "Olympus">>, <<"constructor">>,
   <<"toString", "x">>}

\* instants at which the session endpoint may be called, in half hours of
\* the UTC day, and zones the server may run in, in half hours from UTC
Nows == {0, 7, 30, 47}
ServerOffsets == {0, -16}

Request(op, serverKey, header, bodyOk, goal, sid, ctx, creds, tz, now, serverOffset) ==
  [op |-> op, serverKey |-> serverKey, header |-> header, bodyOk |-> bodyOk,
   goal |-> goal, sessionId |-> sid, contextId |-> ctx, providerCreds |-> creds,
   timezone |-> tz, now |-> now, serverOffset |-> serverOffset]

\* POST /api/agent: body { goal, sessionId? }
AgentRequests ==
  {Request("agent", k, h, b, g, s, NULL, c, AgentTimezone, 0, 0) :
     k \in BOOLEAN, h \in Headers, b \in BOOLEAN, g \in BOOLEAN,
     s \in {NULL, CallerSession}, c \in BOOLEAN}

\* POST /api/session: body { timezone?, contextId? }
SessionCreateRequests ==
  {Request("session_create", k, h, b, FALSE, NULL, x, c, tz, now, so) :
     k \in BOOLEAN, h \in Headers, b \in BOOLEAN,
     x \in {NULL, "", CallerContext}, c \in BOOLEAN,
     tz \in Timezones, now \in Nows, so \in ServerOffsets}

\* DELETE /api/session: body { sessionId }
SessionDeleteRequests ==
  {Request("session_delete", k, h, b, FALSE, CallerSession, NULL, c, <<>>, 0, 0) :
     k \in BOOLEAN, h \in Headers, b \in BOOLEAN, c \in BOOLEAN}

Requests == AgentRequests \cup SessionCreateRequests \cup SessionDeleteRequests

----
\* page.tsx: validateApiKey.  0 stands for null (validation passed).

validateApiKeyNoHeaderCheck(serverKey, header) ==
  IF ~serverKey THEN 500 ELSE 0

validateApiKey(serverKey, header) ==
  IF ~serverKey THEN 500
  ELSE IF header = "none" THEN 401
  ELSE IF header # "good" THEN 401
  ELSE 0

----
\* page.tsx: runStagehand and its automation handle

\* what the session answers to one runStagehand: whether init, the
\* operation itself and close succeed
StagehandRuns == [init : BOOLEAN, op : BOOLEAN, close : BOOLEAN]

\* no runStagehand has returned yet
NoOp ==
  [method |-> "-", init |-> "-", op |-> "-", closes |-> 0,
   closeFailed |-> FALSE, threw |-> FALSE]

runStagehandNoFinally(method, env) ==
  [method |-> method,
   init |-> IF env.init THEN "ok" ELSE "failed",
   op |-> IF ~env.init THEN "skipped" ELSE IF env.op THEN "ok" ELSE "failed",
   closes |-> IF env.init /\ env.op THEN 1 ELSE 0,
   closeFailed |-> env.init /\ env.op /\ ~env.close,
   threw |-> ~env.init \/ ~env.op]

\* runStagehand (page.tsx:176-257): the handle exists once the constructor
\* has run (186); init (191) or the operation (196-235) may throw, which is
\* rethrown wrapped (240-243); the finally attempts close on the handle and
\* swallows its failure (244-253); CLOSE also closes inside the switch (217)
runStagehand(method, env) ==
  [method |-> method,
   init |-> IF env.init THEN "ok" ELSE "failed",
   op |-> IF ~env.init THEN "skipped" ELSE IF env.op THEN "ok" ELSE "failed",
   closes |-> IF env.init /\ method = "CLOSE" THEN 2 ELSE 1,
   closeFailed |-> ~env.close,
   threw |-> ~env.init \/ ~env.op]

----
\* route.ts: getClosestRegion and its tables

Regions == {"us-west-2", "us-east-1", "eu-central-1", "ap-southeast-1"}

\* A timezone name is the sequence of its parts between "/" characters, so
\* that timezone.split("/")[0] is its head: <<>> is no timezone (undefined),
\* <<"">> the empty string.
NoTimezone == <<>>

\* exactTimezoneMap (route.ts:13-20)
exactTimezoneMap ==
  [z \in {<<"America", "New_York">>, <<"America", "Detroit">>,
          <<"America", "Toronto">>, <<"America", "Montreal">>,
          <<"America", "Boston">>, <<"America", "Chicago">>} |-> "us-east-1"]

\* prefixToRegion (route.ts:23-32)
prefixToRegion ==
  [America |-> "us-west-2", US |-> "us-west-2", Canada |-> "us-west-2",
   Europe |-> "eu-central-1", Africa |-> "eu-central-1",
   Asia |-> "ap-southeast-1", Australia |-> "ap-southeast-1",
   Pacific |-> "ap-southeast-1"]

\* offsetRanges (route.ts:35-43).  Time is counted in half hours, so the
\* bounds -24, -4, -3, 4, 5, 24 hours read -48, -8, -6, 8, 10, 48.
offsetRanges ==
  << [min |-> -48, max |-> -8, region |-> "us-west-2"],
     [min |-> -6, max |-> 8, region |-> "eu-central-1"],
     [min |-> 10, max |-> 48, region |-> "ap-southeast-1"] >>

\* Both tables are object literals: the in operator also finds the members
\* they inherit from Object.prototype, whose values are no regions.
ObjectPrototypeKeys ==
  {"constructor", "toString", "valueOf", "hasOwnProperty", "__proto__"}

Inherited == "inherited member"

\* timezone in exactTimezoneMap (route.ts:52)
InExactMap(timezone) ==
  \/ timezone \in DOMAIN exactTimezoneMap
  \/ Len(timezone) = 1 /\ timezone[1] \in ObjectPrototypeKeys

\* exactTimezoneMap[timezone] (route.ts:53)
ExactLookup(timezone) ==
  IF timezone \in DOMAIN exactTimezoneMap THEN exactTimezoneMap[timezone]
  ELSE Inherited

\* prefix in prefixToRegion (route.ts:58)
InPrefixMap(prefix) ==
  prefix \in DOMAIN prefixToRegion \/ prefix \in ObjectPrototypeKeys

\* prefixToRegion[prefix] (route.ts:59)
PrefixLookup(prefix) ==
  IF prefix \in DOMAIN prefixToRegion THEN prefixToRegion[prefix] ELSE Inherited

\* The zones Intl.DateTimeFormat accepts among those the tables do not
\* decide, with their offset from UTC in half hours; for any other name the
\* constructor throws a RangeError (route.ts:65).
ZoneOffsets ==
  (<<"UTC">> :> 0) @@ (<<"Etc", "GMT-9">> :> 18) @@ (<<"Etc", "GMT+5">> :> -10)
  @@ (<<"Indian", "Maldives">> :> 10) @@ (<<"Atlantic", "Azores">> :> -2)

\* formatter.format(date) gives the calendar date of the zone, "M/D/YYYY",
\* and new Date(timeString) reads it as midnight of that date in the
\* server's own zone (route.ts:67-68): the day of the zone at the instant
\* now, and that server-local midnight, both counted from UTC midnight of
\* the day of now
ZoneDay(now, zoneOffset) == (now + zoneOffset) \div 48

testDate(now, zoneOffset, serverOffset) == ZoneDay(now, zoneOffset) * 48 - serverOffset

\* hourOffset (route.ts:69), in half hours
hourOffset(now, zoneOffset, serverOffset) == testDate(now, zoneOffset, serverOffset) - now

\* offsetRanges.find(...)?.region ?? "us-west-2" (route.ts:71-75)
RangeRegion(h) ==
  IF \E i \in DOMAIN offsetRanges : h >= offsetRanges[i].min /\ h <= offsetRanges[i].max
    THEN LET i == CHOOSE k \in DOMAIN offsetRanges :
                    /\ h >= offsetRanges[k].min /\ h <= offsetRanges[k].max
                    /\ \A j \in 1..(k - 1) :
                         ~(h >= offsetRanges[j].min /\ h <= offsetRanges[j].max)
         IN  offsetRanges[i].region
    ELSE "us-west-2"

\* the offset fallback (route.ts:62-75) inside the try, whose catch answers
\* the default region (76-78)
OffsetFallback(timezone, now, serverOffset) ==
  IF timezone \notin DOMAIN ZoneOffsets THEN "us-west-2"
  ELSE RangeRegion(hourOffset(now, ZoneOffsets[timezone], serverOffset))

getClosestRegionPrefixFirst(timezone, now, serverOffset) ==
  IF timezone = NoTimezone \/ timezone = <<"">> THEN "us-west-2"
  ELSE IF InPrefixMap(Head(timezone)) THEN PrefixLookup(Head(timezone))
  ELSE IF InExactMap(timezone) THEN ExactLookup(timezone)
  ELSE OffsetFallback(timezone, now, serverOffset)

\* getClosestRegion(timezone) called at the instant now on a server whose
\* own zone is serverOffset from UTC (route.ts:45-79)
getClosestRegion(timezone, now, serverOffset) ==
  IF timezone = NoTimezone \/ timezone = <<"">> THEN "us-west-2"
  ELSE IF InExactMap(timezone) THEN ExactLookup(timezone)
  ELSE IF InPrefixMap(Head(timezone)) THEN PrefixLookup(Head(timezone))
  ELSE OffsetFallback(timezone, now, serverOffset)

----
\* route.ts: createSession, endSession and the handlers' responses

\* stages of createSession at which the provider may fail, and how: it
\* answers with a status that is not OK, or the fetch rejects (the provider
\* cannot be reached) or the answer's body cannot be read
NoFailure == [stage |-> "none", how |-> "-"]

ProviderFailures ==
  {NoFailure} \cup
  [stage : {"context", "session", "debug"}, how : {"refused", "unreachable"}]

\* the messages of the errors createSession throws itself (route.ts:84-89,
\* 114-116, 145-147, 160-162), by stage
StageMessage ==
  [credentials |-> "BROWSERBASE_API_KEY environment variable is not set",
   context |-> "Failed to create context",
   session |-> "Failed to create session",
   debug |-> "Failed to get debug URL"]

\* the message of an error thrown by fetch or by response.json(), rethrown
\* as it is (route.ts:170-177)
TransportMessage == "fetch failed"

NeedsContextAlways(ctx) == TRUE

\* if (!contextId) (route.ts:102): undefined and the empty string are falsy
NeedsContext(ctx) == ctx = NULL \/ ctx = ""

\* createSession(timezone, contextId) with the provider failing at stage fail:
\* the provider calls it issues and what it returns or throws
createSession(creds, ctx, fail) ==
  LET contextIdToUse == IF NeedsContext(ctx) THEN NewContext ELSE ctx
      ctxCalls == IF NeedsContext(ctx) THEN <<Call("provider_context", "-")>> ELSE <<>>
      sessCall == <<Call("provider_session", contextIdToUse)>>
      dbgCall == <<Call("provider_debug", NewSession)>>
      Thrown(stage, how, cs) ==
        [ok |-> FALSE, stage |-> stage, calls |-> cs, sessionId |-> NULL,
         contextId |-> NULL,
         message |-> IF how = "refused" THEN StageMessage[stage] ELSE TransportMessage]
  IN  IF ~creds THEN Thrown("credentials", "refused", <<>>)
      ELSE IF NeedsContext(ctx) /\ fail.stage = "context"
        THEN Thrown("context", fail.how, ctxCalls)
      ELSE IF fail.stage = "session"
        THEN Thrown("session", fail.how, ctxCalls \o sessCall)
      ELSE IF fail.stage = "debug"
        THEN Thrown("debug", fail.how, ctxCalls \o sessCall \o dbgCall)
      ELSE [ok |-> TRUE, stage |-> "none", message |-> "-",
            calls |-> ctxCalls \o sessCall \o dbgCall,
            sessionId |-> NewSession, contextId |-> contextIdToUse]

\* POST of /api/session: the response for a parsed body
SessionPOSTResponse(creds, ctx, fail) ==
  LET r == createSession(creds, ctx, fail)
  IN  [status |-> IF r.ok THEN 200 ELSE 500, success |-> r.ok,
       sessionId |-> r.sessionId, contextId |-> r.contextId,
       stage |-> r.stage, details |-> r.message, calls |-> r.calls]

\* endSession(sessionId): one release request to the provider
endSessionCalls(sid) == <<Call("provider_release", sid)>>

----
\* page.tsx: guards and tests of the agent endpoint

\* sessionResponse of the create fetch is unusable (page.tsx:602-610)
SessionResponseFailedIgnored(resp) == FALSE

SessionResponseFailed(resp) == resp.status # 200 \/ ~resp.success

\* initError handler's cleanup guard (page.tsx:750)
InitErrorCleans(created, sid) == created /\ sid # NULL

\* outer handler's cleanup guard (page.tsx:802)
OuterCatchCleans(sid) == sid # NULL

\* the create path's finally guard (page.tsx:722)
StreamFinallySkips(sid) == FALSE

StreamFinallyCleans(sid) == sid # NULL

\* executeAgentWithStream's finally guard (page.tsx:545)
GenFinallyCleansAnySession(createdInternally, sid) == sid # NULL

GenFinallyCleans(createdInternally, sid) == createdInternally /\ sid # NULL

\* done = result.tool === "CLOSE" (page.tsx:680)
PostDoneNever(step) == FALSE

PostDone(step) == step.tool = "CLOSE"

\* done = result.tool === "CLOSE" (page.tsx:506)
GenDone(step) == step.tool = "CLOSE"

\* what sendPrompt resolves to: a planned step, or a rejection
PlannerSteps == {Step(t, i) : t \in Tools, i \in Instrs}

\* the response body before any response
NoBody == [success |-> FALSE, sessionId |-> NULL, contextId |-> NULL, details |-> "-"]

----
Init ==
  /\ req \in Requests
  /\ pc = "recv"
  /\ status = 0
  /\ body = NoBody
  /\ sessionId = NULL
  /\ sessionCreatedInRoute = FALSE
  /\ contextId = NULL
  /\ activeSessionId = NULL
  /\ sessionCreatedInternally = FALSE
  /\ firstStep = NoStep
  /\ allSteps = <<>>
  /\ done = FALSE
  /\ started = FALSE
  /\ stream = <<>>
  /\ closed = 0
  /\ cancelled = FALSE
  /\ calls = <<>>
  /\ failure = "none"
  /\ cleanup = "none"
  /\ region = NULL
  /\ lastOp = NoOp
  /\ leaked = FALSE
  /\ overlapped = FALSE
  /\ previousSteps = <<>>
  /\ emitted = <<>>
  /\ wire = <<>>
  /\ buffer = <<>>
  /\ printed = <<>>

runVars == <<firstStep, allSteps, done>>
genVars == <<activeSessionId, sessionCreatedInternally>>
routeVars == <<sessionId, sessionCreatedInRoute, contextId>>
chanVars == <<started, stream, closed, cancelled>>
handleVars == <<lastOp, leaked, overlapped>>
clientVars == <<emitted, wire, buffer, printed>>

\* a synchronous JSON response ends the request
Respond(code) ==
  /\ status' = code
  /\ pc' = "done"

----
\* what runStagehand returns for a step: the extraction of EXTRACT, the
\* observation of OBSERVE (page.tsx:206-215), nothing for the other steps
ResultOf(tool) ==
  IF tool = "EXTRACT" THEN "extraction"
  ELSE IF tool = "OBSERVE" THEN "observation"
  ELSE NULL

\* the previousExtraction argument of the loops' calls of sendPrompt: the
\* calls name goal, sessionID and previousSteps only (page.tsx:497-501,
\* 671-675), so sendPrompt sees it undefined
previousExtraction == NULL

\* runStagehand(method) returns to its caller
ExecutorReturns(method, env) ==
  /\ lastOp' = runStagehand(method, env)
  /\ leaked' = (leaked \/ (env.init /\ runStagehand(method, env).closes = 0))
  /\ overlapped' = (overlapped \/ (env.init /\ leaked))

\* what the session answers to sendPrompt's reading of the current URL:
\* whether init and page.url() succeed
PageReads == [init : BOOLEAN, url : BOOLEAN]

\* sendPrompt's reading of the current URL (page.tsx:272-282): init, url
\* and close follow each other in one try whose catch only logs, so close
\* is reached only when both init and url succeeded
readCurrentUrl(env) ==
  [opened |-> env.init, closes |-> IF env.init /\ env.url THEN 1 ELSE 0]

\* sendPrompt's reading of the current URL returns
PageReadReturns(env) ==
  /\ leaked' = (leaked \/ (readCurrentUrl(env).opened /\ readCurrentUrl(env).closes = 0))
  /\ overlapped' = (overlapped \/ (readCurrentUrl(env).opened /\ leaked))
  /\ UNCHANGED lastOp

----
\* POST of /api/agent up to its first await of a remote call
\* (page.tsx:564-600 and 771-780, 800-823; generator start 435-459)
POST_Receive ==
  /\ pc = "recv"
  /\ req.op = "agent"
  /\ LET validationError == validateApiKey(req.serverKey, req.header)
     IN  IF validationError # 0
           THEN /\ Respond(validationError)
                /\ UNCHANGED <<routeVars, genVars, runVars, chanVars, calls>>
         ELSE IF ~req.bodyOk
           \* request.json() throws: the outer handler, sessionId still null
           THEN /\ Respond(500)
                /\ calls' = IF OuterCatchCleans(sessionId)
                              THEN Append(calls, Call("fetch_delete", sessionId))
                              ELSE calls
                /\ UNCHANGED <<routeVars, genVars, runVars, chanVars>>
         ELSE IF ~req.goal
           THEN /\ Respond(400)
                /\ UNCHANGED <<routeVars, genVars, runVars, chanVars, calls>>
         ELSE IF req.sessionId = NULL
           \* fetch POST /api/session is issued
           THEN /\ pc' = "c_creating"
                /\ calls' = Append(calls, Call("fetch_create", "-"))
                /\ UNCHANGED <<status, routeVars, genVars, runVars, chanVars>>
         \* the stream is returned and executeAgentWithStream runs up to
         \* await selectStartingUrl(goal)
         ELSE /\ sessionId' = req.sessionId
              /\ status' = 200
              /\ started' = TRUE
              /\ activeSessionId' = req.sessionId
              /\ sessionCreatedInternally' = FALSE
              /\ calls' = Append(calls, Call("llm_url", "-"))
              /\ pc' = "g_url"
              /\ UNCHANGED <<sessionCreatedInRoute, contextId, runVars,
                             stream, closed, cancelled>>
  /\ UNCHANGED <<req, clientVars, previousSteps, handleVars, cleanup, region, body, failure>>

----
\* The create path (page.tsx:589-770)

\* finally of the stream's start (page.tsx:720-737)
PostFinally ==
  IF StreamFinallyCleans(sessionId)
    THEN /\ calls' = Append(calls, Call("fetch_delete", sessionId))
         /\ pc' = "c_cleanup"
    ELSE /\ calls' = calls
         /\ pc' = "done"

PostCatchFinallySilent(s) ==
  /\ stream' = s
  /\ closed' = IF cancelled THEN closed ELSE closed + 1
  /\ PostFinally

PostCatchFinallyLeaksOnCancel(s) ==
  IF cancelled
    THEN /\ stream' = s
         /\ closed' = closed
         /\ calls' = calls
         /\ pc' = "done"
    ELSE /\ stream' = Append(s, ErrorEvent)
         /\ closed' = closed + 1
         /\ PostFinally

\* catch of the stream's start (page.tsx:713-719), entered with the events s
\* enqueued so far, then its finally; on a cancelled stream the enqueue of
\* the error event throws and controller.close() is not reached
PostCatchFinally(s) ==
  /\ stream' = IF cancelled THEN s ELSE Append(s, ErrorEvent)
  /\ closed' = IF cancelled THEN closed ELSE closed + 1
  /\ PostFinally

\* the create fetch returns (page.tsx:600-633, 748-770)
POST_SessionCreated ==
  /\ pc = "c_creating"
  /\ \E rejected \in BOOLEAN, fail \in ProviderFailures :
       LET resp == SessionPOSTResponse(req.providerCreds, NULL, fail)
           handled == IF rejected THEN calls ELSE calls \o resp.calls
       IN  /\ failure' = IF rejected \/ ~resp.success THEN "create" ELSE failure
           /\ IF rejected \/ SessionResponseFailed(resp)
             THEN /\ calls' = IF InitErrorCleans(sessionCreatedInRoute, sessionId)
                                THEN Append(handled, Call("fetch_delete", sessionId))
                                ELSE handled
                  /\ Respond(500)
                  /\ UNCHANGED <<routeVars, chanVars>>
             ELSE /\ sessionId' = resp.sessionId
                  /\ contextId' = resp.contextId
                  /\ sessionCreatedInRoute' = TRUE
                  /\ status' = 200
                  /\ started' = TRUE
                  /\ stream' = <<SessionStartEvent(resp.sessionId, resp.contextId)>>
                  /\ calls' = Append(handled, Call("llm_url", "-"))
                  /\ pc' = "c_url"
                  /\ UNCHANGED <<closed, cancelled>>
  /\ region' = IF \E i \in DOMAIN calls' : calls'[i].kind = "provider_session"
                 THEN getClosestRegion(req.timezone, req.now, req.serverOffset)
                 ELSE region
  /\ UNCHANGED <<req, clientVars, previousSteps, handleVars, cleanup, body, genVars, runVars>>

\* selectStartingUrl returns (page.tsx:633-656)
POST_UrlReturn ==
  /\ pc = "c_url"
  /\ \E ok \in BOOLEAN, url \in Urls :
       /\ failure' = IF ok THEN failure ELSE "llm_url"
       /\ IF ok /\ ~cancelled /\ sessionId # NULL
            THEN /\ firstStep' = Step("GOTO", url)
                 /\ stream' = Append(stream, StartingUrlEvent(url))
                 /\ calls' = Append(calls, Call("exec", "GOTO"))
                 /\ pc' = "c_goto"
                 /\ UNCHANGED <<closed, allSteps, done>>
          ELSE IF ok /\ ~cancelled
            \* 'Session ID is unexpectedly null' after starting_url
            THEN /\ firstStep' = Step("GOTO", url)
                 /\ PostCatchFinally(Append(stream, StartingUrlEvent(url)))
                 /\ UNCHANGED <<allSteps, done>>
          ELSE /\ firstStep' = IF ok THEN Step("GOTO", url) ELSE firstStep
               /\ PostCatchFinally(stream)
               /\ UNCHANGED <<allSteps, done>>
  /\ UNCHANGED <<req, clientVars, previousSteps, handleVars, cleanup, region, status, body, routeVars, genVars, started, cancelled>>

\* runStagehand GOTO returns (page.tsx:652-675)
POST_GotoReturn ==
  /\ pc = "c_goto"
  /\ \E env \in StagehandRuns, ok \in BOOLEAN :
       /\ ok = ~runStagehand("GOTO", env).threw
       /\ ExecutorReturns("GOTO", env)
       /\ previousSteps' = IF ok /\ ~cancelled THEN <<firstStep>> ELSE previousSteps
       /\ failure' = IF ok THEN failure ELSE "goto"
       /\ IF ok /\ ~cancelled
            THEN /\ stream' = Append(stream, StepCompleteEvent(firstStep))
                 /\ allSteps' = <<firstStep>>
                 /\ done' = FALSE
                 /\ calls' = Append(calls, Call("page_url", sessionId))
                 /\ pc' = "c_page"
                 /\ UNCHANGED closed
          ELSE /\ PostCatchFinally(stream)
               /\ UNCHANGED <<allSteps, done>>
  /\ UNCHANGED <<req, clientVars, cleanup, region, status, body, routeVars, genVars, firstStep, started, cancelled>>

sendPromptStepsReplaced(steps, result) == <<result>>

\* sendPrompt's returned previousSteps: [...previousSteps, result.object]
\* (page.tsx:362-365), which the loops assign to allSteps (503, 677)
sendPromptSteps(steps, result) == Append(steps, result)

\* sendPrompt attaches a screenshot if a GOTO was taken before (page.tsx:319)
NeedsScreenshot(steps) ==
  Len(steps) > 0 /\ \E i \in DOMAIN steps : steps[i].tool = "GOTO"

\* sendPrompt: reading the current URL returns or fails; a failure is
\* swallowed (page.tsx:272-282), then the screenshot is taken (319-327) or
\* the reasoning model is called at once (343)
POST_PageReturn ==
  /\ pc = "c_page"
  /\ \E env \in PageReads : PageReadReturns(env)
  /\ IF NeedsScreenshot(previousSteps)
         THEN /\ calls' = Append(calls, Call("exec", "SCREENSHOT"))
              /\ pc' = "c_shot"
         ELSE /\ calls' = Append(calls, Call("llm_plan", previousExtraction))
              /\ pc' = "c_plan"
  /\ UNCHANGED <<req, clientVars, previousSteps, cleanup, region, status, body, routeVars, genVars, runVars, chanVars, failure>>

\* sendPrompt: runStagehand SCREENSHOT returns (page.tsx:322-343); its
\* failure rejects sendPrompt
POST_ShotReturn ==
  /\ pc = "c_shot"
  /\ \E env \in StagehandRuns, ok \in BOOLEAN :
       /\ ok = ~runStagehand("SCREENSHOT", env).threw
       /\ ExecutorReturns("SCREENSHOT", env)
       /\ failure' = IF ok THEN failure ELSE "screenshot"
       /\ IF ok
            THEN /\ calls' = Append(calls, Call("llm_plan", previousExtraction))
                 /\ pc' = "c_plan"
                 /\ UNCHANGED <<stream, closed>>
            ELSE PostCatchFinally(stream)
  /\ UNCHANGED <<req, clientVars, previousSteps, cleanup, region, status, body, routeVars, genVars, runVars, started, cancelled>>

\* sendPrompt: generateObject returns and sendPrompt with it
\* (page.tsx:343-365, 671-694, 705-712)
POST_PlanReturn ==
  /\ pc = "c_plan"
  /\ Len(allSteps) <= MaxSteps
  /\ \E ok \in BOOLEAN, result \in PlannerSteps :
       /\ failure' = IF ok THEN failure ELSE "llm_plan"
       /\ IF ~ok
            THEN /\ PostCatchFinally(stream)
                 /\ UNCHANGED <<allSteps, done>>
          ELSE IF cancelled
            THEN /\ allSteps' = sendPromptSteps(previousSteps, result)
                 /\ done' = PostDone(result)
                 /\ PostCatchFinally(stream)
          ELSE IF ~PostDone(result)
            THEN /\ allSteps' = sendPromptSteps(previousSteps, result)
                 /\ done' = FALSE
                 /\ stream' = Append(stream, StepPlannedEvent(result, FALSE))
                 /\ calls' = Append(calls, Call("exec", result.tool))
                 /\ pc' = "c_exec"
                 /\ UNCHANGED closed
          ELSE /\ allSteps' = sendPromptSteps(previousSteps, result)
               /\ done' = TRUE
               /\ stream' = stream \o <<StepPlannedEvent(result, TRUE),
                                        CompleteEvent(sendPromptSteps(previousSteps, result))>>
               /\ closed' = closed + 1
               /\ PostFinally
  /\ UNCHANGED <<req, clientVars, previousSteps, handleVars, cleanup, region, status, body, routeVars, genVars, firstStep, started, cancelled>>

\* runStagehand of the planned step returns (page.tsx:690-703, 669-675)
POST_ExecReturn ==
  /\ pc = "c_exec"
  /\ \E env \in StagehandRuns, ok \in BOOLEAN :
       /\ ok = ~runStagehand(allSteps[Len(allSteps)].tool, env).threw
       /\ ExecutorReturns(allSteps[Len(allSteps)].tool, env)
       /\ previousSteps' = IF ok /\ ~cancelled THEN allSteps ELSE previousSteps
       /\ failure' = IF ok THEN failure ELSE "exec"
       /\ IF ok /\ ~cancelled
            THEN /\ stream' = Append(stream, StepExecutedEvent(allSteps[Len(allSteps)]))
                 /\ calls' = Append(calls, Call("page_url", sessionId))
                 /\ pc' = "c_page"
                 /\ UNCHANGED closed
          ELSE PostCatchFinally(stream)
  /\ UNCHANGED <<req, clientVars, cleanup, region, status, body, routeVars, genVars, runVars, started, cancelled>>

\* the cleanup fetch DELETE returns or rejects; either way it is swallowed
\* (page.tsx:723-736; route.ts DELETE 253-270)
\* the outcomes of the release request: the fetch rejects, the session
\* endpoint releases the session (200), or the provider refuses the release,
\* as for a session already released, and the endpoint answers 500
CleanupOutcomes == {"rejected", "released", "refused"}

POST_CleanupReturnReported ==
  /\ pc = "c_cleanup"
  /\ \E outcome \in CleanupOutcomes :
       /\ calls' = IF outcome = "rejected" THEN calls
                   ELSE calls \o endSessionCalls(sessionId)
       /\ cleanup' = outcome
       /\ stream' = IF outcome = "released" THEN stream ELSE Append(stream, ErrorEvent)
  /\ pc' = "done"
  /\ UNCHANGED <<req, clientVars, previousSteps, handleVars, region, status, body, routeVars, genVars, runVars,
                 started, closed, cancelled, failure>>

\* the fetch DELETE of the finally returns or rejects (page.tsx:722-735);
\* its response is not read and a rejection is caught and logged, then
\* start() returns
POST_CleanupReturn ==
  /\ pc = "c_cleanup"
  /\ \E outcome \in CleanupOutcomes :
       /\ calls' = IF outcome = "rejected" THEN calls
                   ELSE calls \o endSessionCalls(sessionId)
       /\ cleanup' = outcome
  /\ pc' = "done"
  /\ UNCHANGED <<req, clientVars, previousSteps, handleVars, region, status, body, routeVars, genVars, runVars, chanVars, failure>>

----
\* The reuse path: executeAgentWithStream (page.tsx:428-562) consumed by the
\* stream's start (page.tsx:775-789).  It is entered with a session id only
\* (page.tsx:780), so its own session creation (442-451) is never taken.

\* finally of the generator (page.tsx:543-561): the calls after it
GenFinallyCalls ==
  IF GenFinallyCleans(sessionCreatedInternally, activeSessionId)
    THEN Append(calls, Call("fetch_delete", activeSessionId))
    ELSE calls

\* controller.enqueue throws on the cancelled stream (page.tsx:781): the
\* for-await returns the generator, whose finally runs; the enqueue of the
\* route's catch (786) throws as well
GenAbort ==
  /\ calls' = GenFinallyCalls
  /\ pc' = "done"
  /\ UNCHANGED <<stream, closed>>

GenFinishNoClose(s, ev) ==
  IF cancelled
    THEN GenAbort
    ELSE /\ stream' = Append(s, ev)
         /\ closed' = closed
         /\ calls' = GenFinallyCalls
         /\ pc' = "done"

\* the generator ends after yielding its terminal event ev (page.tsx:532-561)
\* and the route closes the stream (783)
GenFinish(s, ev) ==
  IF cancelled
    THEN GenAbort
    ELSE /\ stream' = Append(s, ev)
         /\ closed' = closed + 1
         /\ calls' = GenFinallyCalls
         /\ pc' = "done"

GenCatchRetry ==
  /\ calls' = Append(calls, Call("llm_plan", previousExtraction))
  /\ pc' = "g_plan"
  /\ UNCHANGED <<stream, closed>>

\* catch of the generator (page.tsx:537-542)
GenCatch == GenFinish(stream, ErrorEvent)

\* selectStartingUrl returns (page.tsx:459-482)
Gen_UrlReturn ==
  /\ pc = "g_url"
  /\ \E ok \in BOOLEAN, url \in Urls :
       /\ failure' = IF ok THEN failure ELSE "llm_url"
       /\ IF ~ok
            THEN /\ GenCatch
                 /\ UNCHANGED firstStep
          ELSE IF cancelled
            THEN /\ firstStep' = Step("GOTO", url)
                 /\ GenAbort
          ELSE /\ firstStep' = Step("GOTO", url)
               /\ stream' = Append(stream, SessionStartEvent(activeSessionId, activeSessionId))
               /\ calls' = Append(calls, Call("exec", "GOTO"))
               /\ pc' = "g_goto"
               /\ UNCHANGED closed
  /\ UNCHANGED <<req, clientVars, previousSteps, handleVars, cleanup, region, status, body, routeVars, genVars, allSteps, done, started, cancelled>>

\* runStagehand GOTO returns (page.tsx:478-501)
Gen_GotoReturn ==
  /\ pc = "g_goto"
  /\ \E env \in StagehandRuns, ok \in BOOLEAN :
       /\ ok = ~runStagehand("GOTO", env).threw
       /\ ExecutorReturns("GOTO", env)
       /\ previousSteps' = IF ok /\ ~cancelled THEN <<firstStep>> ELSE previousSteps
       /\ failure' = IF ok THEN failure ELSE "goto"
       /\ IF ~ok
            THEN /\ GenCatch
                 /\ UNCHANGED <<allSteps, done>>
          ELSE IF cancelled
            THEN /\ GenAbort
                 /\ UNCHANGED <<allSteps, done>>
          ELSE /\ stream' = Append(stream, StepCompleteEvent(firstStep))
               /\ allSteps' = <<firstStep>>
               /\ done' = FALSE
               /\ calls' = Append(calls, Call("page_url", activeSessionId))
               /\ pc' = "g_page"
               /\ UNCHANGED closed
  /\ UNCHANGED <<req, clientVars, cleanup, region, status, body, routeVars, genVars, firstStep, started, cancelled>>

\* sendPrompt on the reuse path: reading the current URL returns or fails
\* (page.tsx:272-282, 319-343)
Gen_PageReturn ==
  /\ pc = "g_page"
  /\ \E env \in PageReads : PageReadReturns(env)
  /\ IF NeedsScreenshot(previousSteps)
         THEN /\ calls' = Append(calls, Call("exec", "SCREENSHOT"))
              /\ pc' = "g_shot"
         ELSE /\ calls' = Append(calls, Call("llm_plan", previousExtraction))
              /\ pc' = "g_plan"
  /\ UNCHANGED <<req, clientVars, previousSteps, cleanup, region, status, body, routeVars, genVars, runVars, chanVars, failure>>

\* sendPrompt on the reuse path: runStagehand SCREENSHOT returns
\* (page.tsx:322-343)
Gen_ShotReturn ==
  /\ pc = "g_shot"
  /\ \E env \in StagehandRuns, ok \in BOOLEAN :
       /\ ok = ~runStagehand("SCREENSHOT", env).threw
       /\ ExecutorReturns("SCREENSHOT", env)
       /\ failure' = IF ok THEN failure ELSE "screenshot"
       /\ IF ok
            THEN /\ calls' = Append(calls, Call("llm_plan", previousExtraction))
                 /\ pc' = "g_plan"
                 /\ UNCHANGED <<stream, closed>>
            ELSE GenCatch
  /\ UNCHANGED <<req, clientVars, previousSteps, cleanup, region, status, body, routeVars, genVars, runVars, started, cancelled>>

\* sendPrompt: generateObject returns and sendPrompt with it
\* (page.tsx:343-365, 497-520, 531-536)
Gen_PlanReturn ==
  /\ pc = "g_plan"
  /\ Len(allSteps) <= MaxSteps
  /\ \E ok \in BOOLEAN, result \in PlannerSteps :
       /\ failure' = IF ok THEN failure ELSE "llm_plan"
       /\ IF ~ok
            THEN /\ GenCatch
                 /\ UNCHANGED <<allSteps, done>>
          ELSE IF cancelled
            THEN /\ allSteps' = sendPromptSteps(previousSteps, result)
                 /\ done' = GenDone(result)
                 /\ GenAbort
          ELSE IF ~GenDone(result)
            THEN /\ allSteps' = sendPromptSteps(previousSteps, result)
                 /\ done' = FALSE
                 /\ stream' = Append(stream, StepPlannedEvent(result, FALSE))
                 /\ calls' = Append(calls, Call("exec", result.tool))
                 /\ pc' = "g_exec"
                 /\ UNCHANGED closed
          ELSE /\ allSteps' = sendPromptSteps(previousSteps, result)
               /\ done' = TRUE
               /\ GenFinish(Append(stream, StepPlannedEvent(result, TRUE)),
                            CompleteEvent(sendPromptSteps(previousSteps, result)))
  /\ UNCHANGED <<req, clientVars, previousSteps, handleVars, cleanup, region, status, body, routeVars, genVars, firstStep, started, cancelled>>

\* runStagehand of the planned step returns (page.tsx:516-529, 495-501)
Gen_ExecReturn ==
  /\ pc = "g_exec"
  /\ \E env \in StagehandRuns, ok \in BOOLEAN :
       /\ ok = ~runStagehand(allSteps[Len(allSteps)].tool, env).threw
       /\ ExecutorReturns(allSteps[Len(allSteps)].tool, env)
       /\ previousSteps' = IF ok /\ ~cancelled THEN allSteps ELSE previousSteps
       /\ failure' = IF ok THEN failure ELSE "exec"
       /\ IF ~ok
            THEN GenCatch
          ELSE IF cancelled
            THEN GenAbort
          ELSE /\ stream' = Append(stream, StepExecutedEvent(allSteps[Len(allSteps)]))
               /\ calls' = Append(calls, Call("page_url", activeSessionId))
               /\ pc' = "g_page"
               /\ UNCHANGED closed
  /\ UNCHANGED <<req, clientVars, cleanup, region, status, body, routeVars, genVars, runVars, started, cancelled>>

----
\* the consumer of the event stream disconnects while the run awaits
Awaiting ==
  {"c_url", "c_goto", "c_page", "c_shot", "c_plan", "c_exec",
   "g_url", "g_goto", "g_page", "g_shot", "g_plan", "g_exec"}

Cancel ==
  /\ pc \in Awaiting
  /\ started
  /\ closed = 0
  /\ ~cancelled
  /\ cancelled' = TRUE
  /\ UNCHANGED <<req, clientVars, previousSteps, handleVars, cleanup, region, pc, status, body, routeVars, genVars, runVars,
                 started, stream, closed, calls, failure>>

----
\* The session endpoint, called from outside (route.ts:203-270)

\* POST (route.ts:203-251)
Session_POST ==
  /\ pc = "recv"
  /\ req.op = "session_create"
  /\ IF ~req.bodyOk
       THEN /\ Respond(500)
            /\ body' = [NoBody EXCEPT !.details = "request"]
            /\ UNCHANGED calls
       ELSE \E fail \in ProviderFailures :
              LET resp == SessionPOSTResponse(req.providerCreds, req.contextId, fail)
              IN  /\ calls' = calls \o resp.calls
                  /\ Respond(resp.status)
                  /\ body' = [success |-> resp.success, sessionId |-> resp.sessionId,
                              contextId |-> resp.contextId, details |-> resp.details]
  /\ region' = IF \E i \in DOMAIN calls' : calls'[i].kind = "provider_session"
                 THEN getClosestRegion(req.timezone, req.now, req.serverOffset)
                 ELSE region
  /\ UNCHANGED <<req, clientVars, previousSteps, handleVars, cleanup, routeVars, genVars, runVars, chanVars, failure>>

\* DELETE (route.ts:253-270)
Session_DELETE ==
  /\ pc = "recv"
  /\ req.op = "session_delete"
  /\ IF ~req.bodyOk
       THEN /\ Respond(500)
            /\ body' = [NoBody EXCEPT !.details = "request"]
            /\ UNCHANGED calls
       ELSE \E ok \in BOOLEAN :
              /\ calls' = calls \o endSessionCalls(req.sessionId)
              /\ Respond(IF ok THEN 200 ELSE 500)
              /\ body' = [NoBody EXCEPT !.success = ok,
                                        !.details = IF ok THEN "-" ELSE "release"]
  /\ UNCHANGED <<req, clientVars, previousSteps, handleVars, cleanup, region, routeVars, genVars, runVars, chanVars, failure>>

----
Next ==
  \/ POST_Receive
  \/ POST_SessionCreated
  \/ POST_UrlReturn
  \/ POST_GotoReturn
  \/ POST_PageReturn
  \/ POST_ShotReturn
  \/ POST_PlanReturn
  \/ POST_ExecReturn
  \/ POST_CleanupReturn
  \/ Gen_UrlReturn
  \/ Gen_GotoReturn
  \/ Gen_PageReturn
  \/ Gen_ShotReturn
  \/ Gen_PlanReturn
  \/ Gen_ExecReturn
  \/ Cancel
  \/ Session_POST
  \/ Session_DELETE

Spec == Init /\ [][Next]_vars

----
\* The stepping loop of the reuse path followed without end (page.tsx:495-529)
\*
\* Spec follows a run for MaxSteps planner answers.  Here the loop is
\* followed for as long as it runs: of the stream and of the call log only
\* the last Window entries are kept, of the step history the first step and
\* the last Window steps, so that a loop that never ends is a cycle.  What
\* the loop reads of them is kept: the last step, and whether the history
\* has a GOTO (its first step is one).

Window == 2

Recent(seq) ==
  IF Len(seq) > Window THEN SubSeq(seq, Len(seq) - Window + 1, Len(seq)) ELSE seq

Abridged(steps) ==
  IF Len(steps) > Window + 1
    THEN <<steps[1]>> \o SubSeq(steps, Len(steps) - Window + 1, Len(steps))
    ELSE steps

\* the run on entering the loop: session_start and the first step's
\* step_complete written, sendPrompt reading the current URL (page.tsx:470-497)
LoopInit ==
  /\ req = Request("agent", TRUE, "good", TRUE, TRUE, CallerSession, NULL, FALSE, AgentTimezone, 0, 0)
  /\ pc = "g_page"
  /\ status = 200
  /\ body = NoBody
  /\ sessionId = CallerSession
  /\ sessionCreatedInRoute = FALSE
  /\ contextId = NULL
  /\ activeSessionId = CallerSession
  /\ sessionCreatedInternally = FALSE
  /\ firstStep \in {Step("GOTO", url) : url \in Urls}
  /\ allSteps = <<firstStep>>
  /\ done = FALSE
  /\ started = TRUE
  /\ stream = <<SessionStartEvent(CallerSession, CallerSession), StepCompleteEvent(firstStep)>>
  /\ closed = 0
  /\ cancelled = FALSE
  /\ calls = Recent(<<Call("llm_url", "-"), Call("exec", "GOTO"), Call("page_url", CallerSession)>>)
  /\ failure = "none"
  /\ cleanup = "none"
  /\ region = NULL
  /\ lastOp \in {runStagehand("GOTO", env) : env \in {e \in StagehandRuns : e.init /\ e.op}}
  /\ leaked = FALSE
  /\ overlapped = FALSE
  /\ previousSteps = <<firstStep>>
  /\ emitted = <<>>
  /\ wire = <<>>
  /\ buffer = <<>>
  /\ printed = <<>>

\* sendPrompt: reading the current URL returns or fails (page.tsx:272-282,
\* 319-343)
Loop_PageReturn ==
  /\ pc = "g_page"
  /\ \E env \in PageReads : PageReadReturns(env)
  /\ IF NeedsScreenshot(previousSteps)
         THEN /\ calls' = Recent(Append(calls, Call("exec", "SCREENSHOT")))
              /\ pc' = "g_shot"
         ELSE /\ calls' = Recent(Append(calls, Call("llm_plan", previousExtraction)))
              /\ pc' = "g_plan"
  /\ UNCHANGED <<req, clientVars, previousSteps, cleanup, region, status, body, routeVars, genVars, runVars, chanVars, failure>>

\* sendPrompt: runStagehand SCREENSHOT returns (page.tsx:322-343)
Loop_ShotReturn ==
  /\ pc = "g_shot"
  /\ \E env \in StagehandRuns, ok \in BOOLEAN :
       /\ ok = ~runStagehand("SCREENSHOT", env).threw
       /\ ExecutorReturns("SCREENSHOT", env)
       /\ failure' = IF ok THEN failure ELSE "screenshot"
       /\ IF ok
            THEN /\ calls' = Recent(Append(calls, Call("llm_plan", previousExtraction)))
                 /\ pc' = "g_plan"
                 /\ UNCHANGED <<stream, closed>>
            ELSE GenCatch
  /\ UNCHANGED <<req, clientVars, previousSteps, cleanup, region, status, body, routeVars, genVars, runVars, started, cancelled>>

\* sendPrompt: generateObject returns and sendPrompt with it
\* (page.tsx:343-365, 497-520, 531-536)
Loop_PlanReturn ==
  /\ pc = "g_plan"
  /\ \E ok \in BOOLEAN, result \in PlannerSteps :
       /\ failure' = IF ok THEN failure ELSE "llm_plan"
       /\ IF ~ok
            THEN /\ GenCatch
                 /\ UNCHANGED <<allSteps, done>>
          ELSE IF cancelled
            THEN /\ allSteps' = Abridged(sendPromptSteps(previousSteps, result))
                 /\ done' = GenDone(result)
                 /\ GenAbort
          ELSE IF ~GenDone(result)
            THEN /\ allSteps' = Abridged(sendPromptSteps(previousSteps, result))
                 /\ done' = FALSE
                 /\ stream' = Recent(Append(stream, StepPlannedEvent(result, FALSE)))
                 /\ calls' = Recent(Append(calls, Call("exec", result.tool)))
                 /\ pc' = "g_exec"
                 /\ UNCHANGED closed
          ELSE /\ allSteps' = Abridged(sendPromptSteps(previousSteps, result))
               /\ done' = TRUE
               /\ GenFinish(Append(stream, StepPlannedEvent(result, TRUE)),
                            CompleteEvent(Abridged(sendPromptSteps(previousSteps, result))))
  /\ UNCHANGED <<req, clientVars, previousSteps, handleVars, cleanup, region, status, body, routeVars, genVars, firstStep, started, cancelled>>

\* runStagehand of the planned step returns (page.tsx:516-529, 495-501)
Loop_ExecReturn ==
  /\ pc = "g_exec"
  /\ \E env \in StagehandRuns, ok \in BOOLEAN :
       /\ ok = ~runStagehand(allSteps[Len(allSteps)].tool, env).threw
       /\ ExecutorReturns(allSteps[Len(allSteps)].tool, env)
       /\ previousSteps' = IF ok /\ ~cancelled THEN allSteps ELSE previousSteps
       /\ failure' = IF ok THEN failure ELSE "exec"
       /\ IF ~ok
            THEN GenCatch
          ELSE IF cancelled
            THEN GenAbort
          ELSE /\ stream' = Recent(Append(stream, StepExecutedEvent(allSteps[Len(allSteps)])))
               /\ calls' = Recent(Append(calls, Call("page_url", activeSessionId)))
               /\ pc' = "g_page"
               /\ UNCHANGED closed
  /\ UNCHANGED <<req, clientVars, cleanup, region, status, body, routeVars, genVars, runVars, started, cancelled>>

\* an awaited call of the loop returns
LoopReturns ==
  \/ Loop_PageReturn
  \/ Loop_ShotReturn
  \/ Loop_PlanReturn
  \/ Loop_ExecReturn

LoopNext ==
  \/ LoopReturns
  \/ Cancel

\* every awaited call eventually returns, with success or with failure;
\* nothing makes the consumer disconnect
LoopSpec == LoopInit /\ [][LoopNext]_vars /\ WF_vars(LoopReturns)

----
\* The test client reading the event stream (part_000:91-125)

\* records of one response, and characters of one record
MaxRecords == 2
MaxRecordLen == 2

\* Characters of a record's JSON text: a character of one byte and one of
\* two bytes; JSON.stringify puts no raw line break inside a record.  LF is
\* the line break, Replacement the character U+FFFD.
RecordChars == {"a", "e-acute"}
LF == "LF"
Replacement == "U+FFFD"

\* sequences over S of length lo..hi
SeqsOf(S, lo, hi) == UNION {[1..n -> S] : n \in lo..hi}

Records == SeqsOf(RecordChars, 1, MaxRecordLen)

\* TextEncoder.encode: UTF-8 (page.tsx:621, 776)
RECURSIVE Encode(_)
Encode(chars) ==
  IF chars = <<>> THEN <<>>
  ELSE (IF chars[1] = "e-acute" THEN <<"0xC3", "0xA9">>
        ELSE IF chars[1] = LF THEN <<"0x0A">>
        ELSE <<"0x61">>) \o Encode(Tail(chars))

\* the bytes the server enqueues for one event: JSON.stringify(event) + '\n'
\* (page.tsx:623-628, 781)
ServerWrite(record) == Encode(Append(record, LF))

RECURSIVE ServerWrites(_)
ServerWrites(records) ==
  IF records = <<>> THEN <<>>
  ELSE ServerWrite(Head(records)) \o ServerWrites(Tail(records))

\* chunk.toString() (part_000:96): each chunk is decoded as UTF-8 on its
\* own; a lead byte without its continuation byte in the same chunk, and a
\* continuation byte without its lead byte, each become U+FFFD
RECURSIVE ChunkToString(_)
ChunkToString(bytes) ==
  IF bytes = <<>> THEN <<>>
  ELSE IF bytes[1] = "0xC3"
    THEN IF Len(bytes) >= 2 /\ bytes[2] = "0xA9"
           THEN <<"e-acute">> \o ChunkToString(Tail(Tail(bytes)))
           ELSE <<Replacement>> \o ChunkToString(Tail(bytes))
  ELSE IF bytes[1] = "0xA9" THEN <<Replacement>> \o ChunkToString(Tail(bytes))
  ELSE IF bytes[1] = "0x0A" THEN <<LF>> \o ChunkToString(Tail(bytes))
  ELSE <<"a">> \o ChunkToString(Tail(bytes))

\* text.split('\n') (part_000:99): the pieces between line breaks, at least one
RECURSIVE Split(_)
Split(text) ==
  IF \A i \in DOMAIN text : text[i] # LF THEN <<text>>
  ELSE LET k == CHOOSE i \in DOMAIN text :
                  text[i] = LF /\ \A j \in 1..(i - 1) : text[j] # LF
       IN  <<SubSeq(text, 1, k - 1)>> \o Split(SubSeq(text, k + 1, Len(text)))

\* line.trim() is not empty (part_000:103, 115): the characters of a record
\* are no white space
NotBlank(line) == line # <<>>

\* a response of 200 with the server's records on the wire (part_000:80-92)
ClientInit ==
  /\ req = Request("agent", TRUE, "good", TRUE, TRUE, NULL, NULL, TRUE, AgentTimezone, 0, 0)
  /\ pc = "reading"
  /\ status = 200
  /\ body = NoBody
  /\ sessionId = NULL
  /\ sessionCreatedInRoute = FALSE
  /\ contextId = NULL
  /\ activeSessionId = NULL
  /\ sessionCreatedInternally = FALSE
  /\ firstStep = NoStep
  /\ allSteps = <<>>
  /\ done = FALSE
  /\ started = TRUE
  /\ stream = <<>>
  /\ closed = 0
  /\ cancelled = FALSE
  /\ calls = <<>>
  /\ failure = "none"
  /\ cleanup = "none"
  /\ region = NULL
  /\ lastOp = NoOp
  /\ leaked = FALSE
  /\ overlapped = FALSE
  /\ previousSteps = <<>>
  /\ emitted \in SeqsOf(Records, 1, MaxRecords)
  /\ wire = ServerWrites(emitted)
  /\ buffer = <<>>
  /\ printed = <<>>

serverVars ==
  <<req, status, body, routeVars, genVars, runVars, chanVars, handleVars, calls,
    failure, cleanup, region, previousSteps>>

\* res.on('data') (part_000:94-111) for a chunk of the first n bytes left
ClientData ==
  /\ pc = "reading"
  /\ wire # <<>>
  /\ \E n \in 1..Len(wire) :
       LET lines == Split(buffer \o ChunkToString(SubSeq(wire, 1, n)))
           complete == SubSeq(lines, 1, Len(lines) - 1)
       IN  /\ wire' = SubSeq(wire, n + 1, Len(wire))
           /\ buffer' = lines[Len(lines)]
           /\ printed' = printed \o SelectSeq(complete, NotBlank)
  /\ UNCHANGED <<serverVars, pc, emitted>>

\* res.on('end') (part_000:113-125)
ClientEnd ==
  /\ pc = "reading"
  /\ wire = <<>>
  /\ printed' = IF NotBlank(buffer) THEN Append(printed, buffer) ELSE printed
  /\ pc' = "ended"
  /\ UNCHANGED <<serverVars, emitted, wire, buffer>>

ClientNext ==
  \/ ClientData
  \/ ClientEnd

ClientSpec == ClientInit /\ [][ClientNext]_vars

----
\* Reading the stream and the call log

CountType(t) == Cardinality({i \in DOMAIN stream : stream[i].type = t})

CountCalls(kind) == Cardinality({i \in DOMAIN calls : calls[i].kind = kind})

Terminal(e) == e.type \in {"complete", "error"}

LastEvent == stream[Len(stream)]

\* the run has left its try/catch: cleanup is in flight or over
RunEnded == pc \in {"c_cleanup", "done"}

CreateRun == req.op = "agent" /\ started /\ sessionCreatedInRoute

ReuseRun == req.op = "agent" /\ started /\ req.sessionId # NULL

----
\* C1: a run that created its session and whose stream started requests the
\* release of that session exactly once, at its end, whether it ends with
\* complete or with error: never zero times, never twice, and for no other
\* session.
C1_ReleaseExactlyOnce ==
  CreateRun =>
    /\ CountCalls("fetch_delete") = (IF RunEnded THEN 1 ELSE 0)
    /\ \A i \in DOMAIN calls :
         calls[i].kind = "fetch_delete" => calls[i].arg = sessionId

C1_Witness ==
  /\ CreateRun
  /\ pc = "done"
  /\ failure = "llm_plan"
  /\ stream # <<>> /\ LastEvent.type = "error"
  /\ CountCalls("fetch_delete") = 1

\* C2: a run started with a caller-supplied sessionId never issues a
\* termination request, on any path.
C2_CallerSessionNeverReleased ==
  (req.op = "agent" /\ req.sessionId # NULL) =>
    /\ CountCalls("fetch_delete") = 0
    /\ CountCalls("provider_release") = 0

C2_Witness ==
  /\ ReuseRun
  /\ pc = "done"
  /\ failure = "exec"
  /\ CountCalls("fetch_delete") = 0

\* C3 (as claimed): every started stream has exactly one session_start
\* event and it is the first event, also when starting-URL selection fails.
C3_SessionStartFirst ==
  (req.op = "agent" /\ started /\ stream # <<>>) =>
    /\ stream[1].type = "session_start"
    /\ CountType("session_start") = 1

\* C4: once a CLOSE step is planned its step_planned event is the last
\* step_planned event, no step_executed event follows it, and the executor
\* is never invoked with CLOSE.
C4_CloseIsLast ==
  /\ \A i \in DOMAIN stream :
       (stream[i].type = "step_planned" /\ stream[i].result.tool = "CLOSE") =>
         \A j \in DOMAIN stream :
           j > i => stream[j].type \notin {"step_planned", "step_executed"}
  /\ \A i \in DOMAIN calls : ~(calls[i].kind = "exec" /\ calls[i].arg = "CLOSE")
  /\ (allSteps # <<>> /\ allSteps[Len(allSteps)].tool = "CLOSE") =>
       pc \notin {"c_exec", "g_exec", "c_plan", "g_plan",
                  "c_page", "g_page", "c_shot", "g_shot"}

C4_Witness ==
  /\ pc = "done"
  /\ ~cancelled
  /\ Len(allSteps) = 3
  /\ allSteps[3].tool = "CLOSE"
  /\ \E i \in DOMAIN stream :
       stream[i].type = "step_planned" /\ stream[i].result.tool = "CLOSE"

\* the event at position i of a run without failure is the one the protocol
\* puts there
ExpectedAt(i) ==
  LET e == stream[i]
  IN  IF i = 1 THEN e.type = "session_start"
      ELSE IF i = 2 THEN e.type = "starting_url"
      ELSE IF i = 3
        THEN e.type = "step_complete" /\ e.result.tool = "GOTO" /\ ~e.done
      ELSE IF e.type = "step_planned"
        THEN /\ stream[i-1].type \in {"step_complete", "step_executed"}
             /\ e.done = (e.result.tool = "CLOSE")
      ELSE IF e.type = "step_executed"
        THEN /\ stream[i-1].type = "step_planned"
             /\ ~stream[i-1].done
             /\ stream[i-1].result = e.result
      ELSE /\ e.type = "complete"
           /\ stream[i-1].type = "step_planned"
           /\ stream[i-1].result.tool = "CLOSE"
           /\ stream[i-1].done
           /\ i = Len(stream)

\* C5: with no sessionId supplied, every call succeeding and the consumer
\* connected, the stream is session_start, starting_url, step_complete of
\* the GOTO, then step_planned (done=false) / step_executed pairs of the same
\* step, then step_planned of CLOSE with done=true, then complete, and
\* nothing else.
C5_SuccessfulStream ==
  (CreateRun /\ failure = "none" /\ ~cancelled) =>
    /\ \A i \in DOMAIN stream : ExpectedAt(i)
    /\ RunEnded => (Len(stream) >= 5 /\ LastEvent.type = "complete")

C5_Witness ==
  /\ CreateRun /\ failure = "none" /\ ~cancelled
  /\ pc = "done"
  /\ Len(stream) = 9
  /\ LastEvent.type = "complete"

\* C6: when a reasoning-model call fails after the stream has started (and
\* the consumer is connected) the stream has exactly one error event, it is
\* the last event and there is no complete event; every stream has at most
\* one terminal event and nothing after it.
C6_SingleTerminalEvent ==
  /\ (started /\ failure \in {"llm_url", "llm_plan"} /\ ~cancelled) =>
       /\ CountType("error") = 1
       /\ LastEvent.type = "error"
       /\ CountType("complete") = 0
  /\ CountType("error") + CountType("complete") <= 1
  /\ \A i \in DOMAIN stream : Terminal(stream[i]) => i = Len(stream)

C6_Witness ==
  /\ started /\ ~cancelled
  /\ failure = "llm_plan"
  /\ Len(stream) >= 6
  /\ LastEvent.type = "error"

\* C7: the channel of a started stream is closed exactly once: by the
\* handler right after the terminal event, or by the consumer's
\* cancellation, never by both; nothing is enqueued after the close.
C7_ClosedOnceAfterTerminal ==
  /\ closed <= 1
  /\ closed = 1 => (started /\ ~cancelled /\ stream # <<>> /\ Terminal(LastEvent))
  /\ (stream # <<>> /\ Terminal(LastEvent)) => closed = 1
  /\ (started /\ RunEnded) => closed + (IF cancelled THEN 1 ELSE 0) = 1
  /\ closed = 1 => CountType("error") + CountType("complete") = 1

C7_Witness ==
  /\ ReuseRun
  /\ pc = "done"
  /\ closed = 1
  /\ LastEvent.type = "complete"

ProviderCallKinds ==
  {"provider_context", "provider_session", "provider_debug", "provider_release"}

\* C8 (as claimed): each of the three mutating operations (agent POST,
\* session POST, session DELETE) answers 401 to a well-formed request whose
\* credential header is missing or wrong, on a configured server, and makes
\* no hosting-provider call for it.
C8_AllOperationsAuthenticate ==
  (req.serverKey /\ req.providerCreds /\ req.bodyOk /\ req.header # "good") =>
    /\ pc = "done" => status = 401
    /\ \A i \in DOMAIN calls : calls[i].kind \notin ProviderCallKinds

\* C9: an agent request rejected before streaming (500 without a server
\* credential, whatever the header; 401 for a missing or wrong header; 400
\* for a missing goal) starts no stream and makes no remote call.
RejectionStatus ==
  IF ~req.serverKey THEN 500
  ELSE IF req.header # "good" THEN 401
  ELSE IF req.bodyOk /\ ~req.goal THEN 400
  ELSE 0

C9_RejectedBeforeStreaming ==
  (req.op = "agent" /\ RejectionStatus # 0) =>
    /\ calls = <<>>
    /\ stream = <<>>
    /\ ~started
    /\ pc \in {"recv", "done"}
    /\ pc = "done" => status = RejectionStatus

C9_Witness ==
  /\ req.op = "agent"
  /\ pc = "done"
  /\ req.header = "bad"
  /\ status = 401

\* C10: when no sessionId is supplied and session creation fails, the
\* answer is a synchronous 500, no event is written, and neither planner,
\* executor nor termination is called.
C10_CreationFailureIsSynchronous ==
  (req.op = "agent" /\ failure = "create") =>
    /\ pc = "done"
    /\ status = 500
    /\ ~started
    /\ stream = <<>>
    /\ \A i \in DOMAIN calls :
         calls[i].kind \notin {"llm_url", "llm_plan", "exec", "page_url",
                               "fetch_delete", "provider_release"}

C10_Witness ==
  /\ req.op = "agent"
  /\ failure = "create"
  /\ status = 500
  /\ CountCalls("provider_session") = 1

----
\* the failures of a run's own operations, as recorded when the call returns
RunFailures == {"llm_url", "goto", "screenshot", "llm_plan", "exec"}

\* the calls of a run that do its work: reasoning-model calls, executor
\* operations and the reading of the page
WorkKinds == {"llm_url", "llm_plan", "exec", "page_url"}

WorkCalls(cs) == SelectSeq(cs, LAMBDA c : c.kind \in WorkKinds)

\* C11: once the starting-URL selection, a planner call or an executor
\* operation of a run has failed, the step that handles the failure and every
\* later step issue no planner call and no executor operation, so nothing is
\* re-attempted; the only call that may still be issued is the one release
\* request for the session the run created itself, and what that request
\* does at the session endpoint.
C11_NoRetryAfterFailure ==
  [][failure' \in RunFailures =>
       \/ calls' = calls
       \/ /\ calls' = Append(calls, Call("fetch_delete", sessionId))
          /\ sessionCreatedInRoute
          /\ CountCalls("fetch_delete") = 0
       \/ /\ pc = "c_cleanup"
          /\ calls' = calls \o endSessionCalls(sessionId)]_vars

C11_Witness ==
  /\ CreateRun /\ pc = "done"
  /\ failure = "exec"
  /\ Len(allSteps) >= 2
  /\ CountCalls("fetch_delete") = 1
  /\ CountCalls("provider_release") = 1

----
\* the terminal event the run's own outcome calls for
OutcomeEvent == IF failure = "none" THEN "complete" ELSE "error"

\* C12: whatever the release request of the cleanup does (the fetch
\* rejects, the provider refuses because the session is already released, or
\* the release succeeds), the step that receives it leaves the events
\* written, the closing of the stream, the response status and the recorded
\* outcome of the run as they were and lets the handler return normally; so
\* the stream and its terminal event are those of the same run with a
\* successful release.
C12_CleanupFailureKeepsOutcome ==
  [][pc = "c_cleanup" =>
       /\ stream' = stream
       /\ closed' = closed
       /\ status' = status
       /\ failure' = failure
       /\ pc' = "done"
       /\ cleanup' \in CleanupOutcomes
       /\ ~cancelled => /\ Len(stream') > 0
                        /\ stream'[Len(stream')].type = OutcomeEvent]_vars

C12_Witness ==
  /\ CreateRun /\ pc = "done" /\ ~cancelled
  /\ cleanup \in {"rejected", "refused"}
  /\ failure = "none"
  /\ LastEvent.type = "complete"
  /\ closed = 1

----
\* C13 (as claimed): once the consumer has disconnected, the step in which the
\* round trip in flight returns, and every later step, start no planner call
\* and no executor operation.
C13_DisconnectStopsWork ==
  [][cancelled => WorkCalls(calls') = WorkCalls(calls)]_vars

----
\* C14: in a run that created its session, a consumer that disconnects at
\* any await of the run does not keep the run from ending, and the ended run
\* has requested the release of its session exactly once, for that session
\* and as the last call the handler issues; before its end it has
\* requested none.
C14_DisconnectStillReleasesOnce ==
  (CreateRun /\ cancelled) =>
    /\ pc \in Awaiting \cup {"c_cleanup", "done"}
    /\ ~RunEnded => CountCalls("fetch_delete") = 0
    /\ RunEnded =>
         /\ CountCalls("fetch_delete") = 1
         /\ \E i \in DOMAIN calls :
              /\ calls[i] = Call("fetch_delete", sessionId)
              /\ \A j \in (i + 1)..Len(calls) : calls[j].kind = "provider_release"

C14_Witness ==
  /\ CreateRun /\ cancelled /\ pc = "done"
  /\ Len(allSteps) >= 1
  /\ stream[Len(stream)].type = "step_complete"
  /\ CountCalls("fetch_delete") = 1

----
\* C15 (as claimed): in every run, with or without a caller-supplied
\* sessionId, once the initial GOTO has been handed to the executor the
\* stream holds a starting_url event carrying the chosen URL, written after
\* session_start and before any step_complete.
C15_StartingUrlBeforeGoto ==
  (req.op = "agent" /\ started /\ ~cancelled
     /\ \E i \in DOMAIN calls : calls[i] = Call("exec", "GOTO")) =>
    \E i \in DOMAIN stream :
      /\ stream[i].type = "starting_url"
      /\ stream[i].url = firstStep.instruction
      /\ \E j \in 1..(i - 1) : stream[j].type = "session_start"
      /\ \A j \in 1..i : stream[j].type # "step_complete"

----
\* a session request has gone to the provider, carrying region
RegionSent == region # NULL

\* C16: the region sent for a session follows the tables in priority order:
\* with no timezone it is the default us-west-2; for a timezone listed in
\* the exact table it is that table's region although the prefix table maps
\* its continent elsewhere (America/New_York: us-east-1, not us-west-2); for
\* any other timezone whose part before the first "/" is listed in the
\* prefix table it is the prefix's region.
C16_TablePriority ==
  RegionSent =>
    /\ req.timezone = NoTimezone => region = "us-west-2"
    /\ req.timezone \in DOMAIN exactTimezoneMap =>
         region = exactTimezoneMap[req.timezone]
    /\ req.timezone = <<"America", "New_York">> =>
         /\ prefixToRegion[Head(req.timezone)] = "us-west-2"
         /\ region = "us-east-1"
    /\ ( /\ req.timezone # NoTimezone
         /\ req.timezone \notin DOMAIN exactTimezoneMap
         /\ Head(req.timezone) \in DOMAIN prefixToRegion ) =>
         region = prefixToRegion[Head(req.timezone)]

C16_Witness ==
  /\ req.op = "session_create" /\ pc = "done" /\ status = 200
  /\ req.timezone = <<"America", "New_York">>
  /\ region = "us-east-1"

----
\* C17 (as claimed): for a timezone that neither table lists and whose
\* offset from UTC is known, the region sent is the region of the offset
\* range containing that offset: UTC+9 gives ap-southeast-1, UTC-5 gives
\* us-west-2, UTC+0 gives eu-central-1.
C17_FallbackByUtcOffset ==
  ( /\ RegionSent
    /\ req.timezone \in DOMAIN ZoneOffsets
    /\ req.timezone \notin DOMAIN exactTimezoneMap
    /\ Head(req.timezone) \notin DOMAIN prefixToRegion ) =>
    /\ \E i \in DOMAIN offsetRanges :
         /\ ZoneOffsets[req.timezone] >= offsetRanges[i].min
         /\ ZoneOffsets[req.timezone] <= offsetRanges[i].max
         /\ region = offsetRanges[i].region
    /\ req.timezone = <<"Etc", "GMT-9">> => region = "ap-southeast-1"
    /\ req.timezone = <<"Etc", "GMT+5">> => region = "us-west-2"
    /\ req.timezone = <<"UTC">> => region = "eu-central-1"

----
\* C18 (as claimed): for every timezone received, the empty string, a name
\* no zone has and a name the offset computation rejects included, the value
\* sent as region is one of the four known regions, and it is the default
\* us-west-2 whenever no table entry and no known zone applies.
C18_RegionTotal ==
  RegionSent =>
    /\ region \in Regions
    /\ ( \/ req.timezone = <<"">>
         \/ /\ req.timezone # NoTimezone
            /\ req.timezone \notin DOMAIN exactTimezoneMap
            /\ Head(req.timezone) \notin DOMAIN prefixToRegion
            /\ req.timezone \notin DOMAIN ZoneOffsets ) =>
         region = "us-west-2"

----
\* the kinds of the calls issued, in order
CallKinds == [i \in DOMAIN calls |-> calls[i].kind]

\* the caller of the session endpoint supplied a contextId
ContextSupplied == req.contextId \notin {NULL, ""}

\* C19: an answered session creation has asked the provider for a new
\* context exactly when the caller supplied no contextId.  With a contextId
\* supplied, no context call was made, the session request carries exactly
\* that contextId and a successful response returns it; with none, the
\* session request carries the new context's id and a successful response
\* returns that.  The provider calls made are always an initial part of:
\* context (if needed), session, debug URL.
C19_ContextOnlyWhenAbsent ==
  (req.op = "session_create" /\ pc = "done" /\ req.bodyOk /\ req.providerCreds) =>
    LET bound == IF ContextSupplied THEN req.contextId ELSE NewContext
        order == IF ContextSupplied
                   THEN <<"provider_session", "provider_debug">>
                   ELSE <<"provider_context", "provider_session", "provider_debug">>
    IN  /\ CountCalls("provider_context") = (IF ContextSupplied THEN 0 ELSE 1)
        /\ Len(calls) <= Len(order)
        /\ CallKinds = SubSeq(order, 1, Len(calls))
        /\ \A i \in DOMAIN calls :
             calls[i].kind = "provider_session" => calls[i].arg = bound
        /\ body.success =>
             /\ body.contextId = bound
             /\ Len(calls) = Len(order)

C19_Witness ==
  /\ req.op = "session_create" /\ pc = "done" /\ status = 200
  /\ req.contextId = CallerContext
  /\ body.success /\ body.contextId = CallerContext
  /\ calls = <<Call("provider_session", CallerContext), Call("provider_debug", NewSession)>>

----
\* the stage whose provider call was the last one issued
LastStage ==
  IF calls = <<>> THEN "credentials"
  ELSE IF calls[Len(calls)].kind = "provider_context" THEN "context"
  ELSE IF calls[Len(calls)].kind = "provider_session" THEN "session"
  ELSE "debug"

\* C20 (as claimed): a failed session creation has stopped at the first
\* failing stage (no provider call at all without credentials, none after
\* the failing one), is answered 500 with success=false and no sessionId,
\* and the error of the response identifies the stage that failed.
C20_FailsAtFirstStage ==
  (req.op = "session_create" /\ pc = "done" /\ req.bodyOk /\ ~body.success) =>
    /\ status = 500
    /\ body.sessionId = NULL
    /\ ~req.providerCreds => calls = <<>>
    /\ \A i \in DOMAIN calls : calls[i].kind \in ProviderCallKinds \ {"provider_release"}
    /\ LET order == <<"provider_context", "provider_session", "provider_debug">>
           skip == IF ContextSupplied THEN 1 ELSE 0
       IN  CallKinds = SubSeq(order, 1 + skip, Len(calls) + skip)
    /\ body.details = StageMessage[LastStage]

----
\* C21: every executor operation that has returned attempted the release of
\* its handle, whether it succeeded, failed, or failed to initialise the
\* handle; and whether that release itself fails does not matter to its
\* result: it threw exactly when its init or its operation failed, and the
\* run recorded an executor failure exactly in that case.
C21_HandleReleasedOnEveryExit ==
  lastOp # NoOp =>
    /\ lastOp.closes >= 1
    /\ lastOp.threw <=> (lastOp.init = "failed" \/ lastOp.op = "failed")
    /\ lastOp.threw <=> failure \in {"goto", "screenshot", "exec"}

C21_Witness ==
  /\ pc = "done"
  /\ lastOp.method = "ACT"
  /\ lastOp.op = "failed"
  /\ lastOp.closes = 1 /\ lastOp.closeFailed
  /\ lastOp.threw /\ failure = "exec"

----
\* the executor call of the step executed last before call i, 0 if none
LastStepBefore(i) ==
  LET S == {j \in 1..(i - 1) : calls[j].kind = "exec" /\ calls[j].arg # "SCREENSHOT"}
  IN  IF S = {} THEN 0 ELSE CHOOSE j \in S : \A k \in S : k <= j

\* C22 (as claimed): every planner call of the stepping loop receives as
\* previous extraction the result of the step executed just before it: the
\* extraction after an EXTRACT, the observation after an OBSERVE, and
\* nothing after a step that produces no result.
C22_PlannerReceivesExtraction ==
  \A i \in DOMAIN calls :
    (calls[i].kind = "llm_plan" /\ LastStepBefore(i) # 0) =>
      calls[i].arg = ResultOf(calls[LastStepBefore(i)].arg)

----
\* the steps of the step_planned events written, in order
PlannedSteps ==
  LET ev == SelectSeq(stream, LAMBDA e : e.type = "step_planned")
  IN  [i \in DOMAIN ev |-> ev[i].result]

\* sendPrompt is running
InSendPrompt == pc \in {"c_page", "c_shot", "c_plan", "g_page", "g_shot", "g_plan"}

\* C23: the history is the initial GOTO step followed by the steps planned
\* so far in the order their step_planned events were written, nothing
\* dropped, reordered or doubled; the k-th call of the planner is handed
\* exactly that history, of length k; and a complete event carries the whole
\* history, which ends with the CLOSE step, that step being its final result.
C23_HistoryAppendOnly ==
  (req.op = "agent" /\ started /\ allSteps # <<>>) =>
    /\ ~cancelled => allSteps = <<firstStep>> \o PlannedSteps
    /\ allSteps[1] = firstStep /\ firstStep.tool = "GOTO"
    /\ InSendPrompt =>
         /\ previousSteps = allSteps
         /\ Len(previousSteps) = CountCalls("page_url")
    /\ \A i \in DOMAIN stream :
         stream[i].type = "complete" =>
           /\ stream[i].steps = allSteps
           /\ allSteps[Len(allSteps)].tool = "CLOSE"
           /\ stream[i].result = allSteps[Len(allSteps)]

C23_Witness ==
  /\ req.op = "agent" /\ pc = "done" /\ ~cancelled
  /\ Len(allSteps) = 3
  /\ allSteps[2].tool = "EXTRACT" /\ allSteps[3].tool = "CLOSE"
  /\ LastEvent.type = "complete" /\ LastEvent.steps = allSteps

----
\* executor calls made for planned steps: all but the initial GOTO and the
\* screenshots of sendPrompt
PlannedExecs ==
  Cardinality({i \in DOMAIN calls : calls[i].kind = "exec" /\ calls[i].arg # "SCREENSHOT"
                 /\ \E j \in 1..(i - 1) : calls[j].kind = "exec"})

\* C24: a step_planned event has done=true exactly when its step is CLOSE;
\* a step_executed event comes directly after the step_planned event of the
\* same step, whose done is false; and the executor is called for a planned
\* step only once that step's step_planned event is in the stream: while it
\* runs, that event is the last one written.
C24_PlannedBeforeExecuted ==
  /\ \A i \in DOMAIN stream :
       stream[i].type = "step_planned" =>
         (stream[i].done <=> stream[i].result.tool = "CLOSE")
  /\ \A i \in DOMAIN stream :
       stream[i].type = "step_executed" =>
         /\ i > 1
         /\ stream[i - 1].type = "step_planned"
         /\ stream[i - 1].result = stream[i].result
         /\ ~stream[i - 1].done
  /\ PlannedExecs =
       Cardinality({i \in DOMAIN stream :
                      stream[i].type = "step_planned" /\ ~stream[i].done})
  /\ pc \in {"c_exec", "g_exec"} =>
       /\ LastEvent.type = "step_planned"
       /\ LastEvent.result = allSteps[Len(allSteps)]
       /\ calls[Len(calls)] = Call("exec", LastEvent.result.tool)

C24_Witness ==
  /\ pc = "done" /\ ~cancelled
  /\ Len(stream) >= 2
  /\ LastEvent.type = "complete"
  /\ \E i \in 2..Len(stream) :
       /\ stream[i].type = "step_executed"
       /\ stream[i - 1] = StepPlannedEvent(stream[i].result, FALSE)
       /\ stream[i].result.tool = "ACT"

----
\* the ranges of the table that contain the offset h
RangesContaining(h) ==
  {i \in DOMAIN offsetRanges : h >= offsetRanges[i].min /\ h <= offsetRanges[i].max}

\* the offset fallback has run for the request
FallbackUsed ==
  /\ RegionSent
  /\ req.timezone \notin {NoTimezone, <<"">>}
  /\ ~InExactMap(req.timezone)
  /\ ~InPrefixMap(Head(req.timezone))
  /\ req.timezone \in DOMAIN ZoneOffsets

\* C25 (as claimed): every offset between -24 and +24 hours that the
\* fallback looks up, whole or not, lies in exactly one range of the table,
\* so that the lookup never finds no range.
C25_RangesCoverAllOffsets ==
  FallbackUsed =>
    LET h == hourOffset(req.now, ZoneOffsets[req.timezone], req.serverOffset)
    IN  (h >= -48 /\ h <= 48) => Cardinality(RangesContaining(h)) = 1

----
\* C26 (as claimed): the contextId of a session_start event is the id of
\* the context the run's session is bound to (for a session the run
\* created, the contextId that creation returned) and is never the
\* session's own identifier.
C26_ContextIdIsContext ==
  \A i \in DOMAIN stream :
    stream[i].type = "session_start" =>
      /\ stream[i].contextId # stream[i].sessionId
      /\ stream[i].contextId \in {NewContext, CallerContext}
      /\ CreateRun => stream[i].contextId = contextId

----
\* C27 (as claimed): within a run no handle is opened on the session while
\* an earlier one is still open, and no handle is left open: every handle
\* opened by the executor or by the planner's reading of the current URL or
\* screenshot has had its close called before the next is opened and before
\* the run ends, also when reading the current URL fails.
C27_HandlesNeverOverlapOrLeak ==
  req.op = "agent" => (~leaked /\ ~overlapped)

----
\* C28 (as claimed): when every awaited call eventually returns, a run whose
\* stream has started eventually has written a terminal event and closed the
\* stream, unless its consumer has disconnected.
C28_RunTerminates ==
  (req.op = "agent" /\ started) ~>
    (cancelled \/ (closed = 1 /\ stream # <<>> /\ Terminal(LastEvent)))

----
\* session creation has failed after the provider had created the session:
\* the debug URL was asked for, which happens only then
FailedAfterSessionCreated ==
  /\ pc = "done"
  /\ \/ req.op = "session_create" /\ req.bodyOk /\ ~body.success
     \/ req.op = "agent" /\ failure = "create"
  /\ CountCalls("provider_debug") = 1

\* C29 (as claimed): when session creation fails after the provider has
\* created the session, the release of that session has been requested from
\* the provider by the time the failure is reported.
C29_NoSessionLeftAllocated ==
  FailedAfterSessionCreated =>
    \E i \in DOMAIN calls : calls[i] = Call("provider_release", NewSession)

----
\* C30 (as claimed): whatever the division of the response's bytes into
\* chunks, the lines the client has handed on are the records the server
\* wrote, in order, each as it was written; when the response has ended
\* they are all of them, each once.
C30_ClientRecoversRecords ==
  /\ Len(printed) <= Len(emitted)
  /\ printed = SubSeq(emitted, 1, Len(printed))
  /\ pc = "ended" => printed = emitted

====
